---- MODULE Spec2Model ----
(***************************************************************************)
(* The interactivity layer of the DO Media site as a state machine:        *)
(*   - Navigation (mobile menu, nav links, active section) and the parts   *)
(*     of Helpers / ViewportUtils it calls,                                *)
(*   - the application coordinator DOMediaApp (module initialisation,      *)
(*     global error handling),                                             *)
(*   - Animations (entrance animations, reduced-motion preference),        *)
(*   - ViewportUtils and Helpers.debounce, called on their own,            *)
(*   - LaptopEnhancer and ButtonEnhancer (sizes, pointer effects, the      *)
(*     fullscreen preview).                                                *)
(* The page markup is the environment.  Under Spec the page holds the      *)
(* elements the scripts expect (#mainNav, #mobileMenuBtn), in their closed *)
(* state: no 'active' class, aria-expanded="false", glyph "hamburger".     *)
(* Under SpecLoad either element may be missing.                           *)
(* A handler is one action: the browser runs a listener to completion,     *)
(* and the listeners of one event one after the other, before anything     *)
(* else happens.                                                           *)
(***************************************************************************)
EXTENDS Integers, Sequences, FiniteSets, TLC

VARIABLES
    page,            \* the sections in the page: id -> offsetTop
    doc,             \* document.body.scrollHeight and the viewport's height
    q,               \* what ViewportUtils last answered about the viewport
    sub,             \* the subscription ViewportUtils.onViewportChange made
    lock,            \* window.pageYOffset in tenths of a pixel, the body's
                     \* inline style and data-scroll-y (lockScroll)
    prog,            \* the subscription ViewportUtils.onScroll made
    els,             \* which of the enhancers' elements are in the page
    lap,             \* LaptopEnhancer
    cta,             \* ButtonEnhancer
    deb,             \* a function Helpers.debounce returned, and its timers
    errs,            \* the last error event DOMediaApp's listeners handled
    preview,         \* LaptopEnhancer's fullscreen preview
    hasBtn,          \* #mobileMenuBtn is in the page
    hasNav,          \* #mainNav is in the page
    hasHeader,       \* a <header> element is in the page
    width,           \* viewport width
    scrollY,         \* window.pageYOffset
    app,             \* DOMediaApp: pc, modules initialised, handlers, notifications
    bound,           \* Navigation.bindEvents has run
    menu,            \* Navigation.state.isMobileMenuOpen and the menu's DOM
    currentSection,  \* Navigation.state.currentSection
    activeLink,      \* the nav link carrying 'active' / aria-current="page"
    headerScrolled,  \* header carries the class 'scrolled'
    closeTimers,     \* pending setTimeout(closeMobileMenu, 300)
    focusTimers,     \* pending setTimeout(firstNavLink.focus, 100)
    resizePending,   \* the debounced resize handler has a timer running
    inThrottle,      \* the throttled scroll handler is inside its limit
    raf,             \* requestAnimationFrame callbacks of smoothScrollTo
    lastScroll,      \* the scroll most recently requested, and its outcome
    last,            \* the handler that ran last and what it did
    preOpen,         \* the menu's DOM when openMobileMenu was last entered
    mq,              \* the media query (prefers-reduced-motion: reduce) matches
    anim,            \* Animations.state: isInitialized, prefersReducedMotion
    observed,        \* the elements the IntersectionObserver observes
    animatedElements,\* Animations.state.animatedElements
    style,           \* inline opacity / transition, and 'animate-in', per element
    timers,          \* pending setTimeout callbacks of Animations, per kind
    lastAnim,        \* the last animateElement call and what it did
    hist             \* what has happened to the elements so far

\* What the helpers keep that are called on their own.
helpVars == <<deb, errs, preview>>

\* What the utilities and the enhancers keep, apart from Navigation.
utilVars == <<page, doc, q, sub, lock, prog, els, lap, cta, helpVars>>

navVars == <<utilVars, hasBtn, hasNav, hasHeader, width, scrollY, app,
             bound, menu,
             currentSection, activeLink, headerScrolled, closeTimers,
             focusTimers, resizePending, inThrottle, raf,
             lastScroll, last, preOpen>>

animVars == <<mq, anim, observed, animatedElements, style, timers, lastAnim,
              hist>>

enhVars == <<els, lap, cta>>

\* Navigation's and DOMediaApp's variables, the viewport's width apart.
coreVars == <<hasBtn, hasNav, hasHeader, scrollY, app, bound, menu,
              currentSection, activeLink, headerScrolled, closeTimers,
              focusTimers, resizePending, inThrottle, raf,
              lastScroll, last, preOpen>>

vars == <<navVars, animVars>>

----------------------------------------------------------------------------
(* Bounds of the model *)

MaxTimers == 1      \* pending timers of one kind
MaxRaf == 1         \* smooth scrolls in flight
MaxNotes == 1       \* error notifications in the document
FrameMs == 400      \* time between two animation frames
MaxCalls == 2       \* invocations of onViewportChange's callback
MaxDebounced == 4   \* calls of a debounced function
MaxPreviews == 3    \* Escape listeners of fullscreen previews

(* Program constants *)

mobileBreakpoint == 768
smoothScrollDuration == 800
smoothScrollOffset == 80

(* The page *)

Widths == {768, 769}
\* Widths around every threshold of ViewportUtils.
ViewWidths == {0, 479, 480, 767, 768, 769, 800, 1023, 1024, 1025, 1399,
               1400, 1500}
\* Window scroll offsets, in pixels and tenths: 0, 100 and 100.5.
Zero == [px |-> 0, frac |-> 0]
LockYs == {Zero, [px |-> 100, frac |-> 0], [px |-> 100, frac |-> 5]}
\* document.body.scrollHeight and the viewport's heights.
TheDoc == [scrollHeight |-> 1000, vh |-> 600]
Docs == [scrollHeight : {800, 1000}, vh : {600, 800}]
ViewHeights == {600, 800}
\* Widths around every threshold of LaptopEnhancer.adjustSizeForViewport.
LaptopWidths == {575, 576, 767, 768, 991, 992, 1199, 1200, 1399, 1400, 1500}
\* The elements the enhancers look for: .laptop-container, .laptop-image,
\* .laptop-frame, .laptop-showcase and .cta-button.
AllEls == [container |-> TRUE, image |-> TRUE, frame |-> TRUE,
           showcase |-> TRUE, button |-> TRUE]
ElSets == [container : BOOLEAN, image : BOOLEAN, frame : BOOLEAN,
           showcase : BOOLEAN, button : BOOLEAN]
\* The events LaptopEnhancer listens to on its target element, on the
\* image, and on the window, and its interval; its public methods.
TargetEvents == {"mouseenter", "mouseleave", "mousemove", "click",
                 "dblclick", "touchstart", "touchend"}
ImageEvents == {"keydown", "focus", "blur"}
WindowEvents == {"scroll", "interval"}
LaptopMethods == {"enhanceSizeNow", "triggerAttentionEffect",
                  "getEnhancementState"}
\* The events ButtonEnhancer listens to, and its public methods.
ButtonEvents == {"click", "mouseenter", "mouseleave", "mousemove", "keydown",
                 "focus", "blur", "touchstart", "touchend", "scroll",
                 "intersection"}
ButtonMethods == {"enhanceVisibilityNow", "getVisibilityState"}
ScrollYs == {0, 500, 1099, 1100, 1250}
\* The page the scripts are written for: the hero at the top and a contact
\* section further down.
ThePage == [id \in {"home", "contact"} |-> IF id = "home" THEN 0 ELSE 1200]
\* Other pages: any of home, about and contact, the about section before or
\* after the contact section.
Pages ==
    {pg \in UNION {[ids -> {0, 600, 1200, 1300}] :
                      ids \in SUBSET {"home", "about", "contact"}} :
        /\ "home" \in DOMAIN pg => pg["home"] = 0
        /\ "about" \in DOMAIN pg => pg["about"] \in {600, 1300}
        /\ "contact" \in DOMAIN pg => pg["contact"] = 1200}
PageIds == DOMAIN page
LinkIds == {"contact", "pricing", "get-started"}
\* element.offsetTop; the hero section, when it has no id, is at the top.
OffsetTop(id) == IF id \in PageIds THEN page[id] ELSE 0

\* The elements setupScrollAnimations selects: the hero heading, the laptop
\* frame, the call-to-action button and one other (.hero-content p).
Elems == {"frame", "p"}
\* A child of the frame's .screen-content, and a nav list item.
Kid == "kid"
Item == "li"
Styled == Elems \cup {Kid, Item}
\* Timer callbacks: an element's reveal, or the frame's animateScreenContent.
TimerKinds == Styled \cup {"screen"}

sections == <<"home", "about", "services", "testimonials", "contact">>

Min(a, b) == IF a < b THEN a ELSE b
Max(a, b) == IF a > b THEN a ELSE b

----------------------------------------------------------------------------
(* ViewportUtils *)

isMobile(w) == w <= mobileBreakpoint

\* An isTablet that starts at 768.
isTablet_From768(w) == w >= 768 /\ w <= 1024

isTablet(w) == w > 768 /\ w <= 1024

isDesktop(w) == w > 1024

\* A getCurrentBreakpoint whose lg tier starts above 1024.
getCurrentBreakpoint_LgAbove1024(w) ==
    IF w >= 1400 THEN "xl"
    ELSE IF w > 1024 THEN "lg"
    ELSE IF w >= 768 THEN "md"
    ELSE IF w >= 480 THEN "sm"
    ELSE "xs"

getCurrentBreakpoint(w) ==
    IF w >= 1400 THEN "xl"
    ELSE IF w >= 1024 THEN "lg"
    ELSE IF w >= 768 THEN "md"
    ELSE IF w >= 480 THEN "sm"
    ELSE "xs"

\* What the queries answer at width w.
NoQuery == [asked |-> FALSE, w |-> 0, bp |-> "none", mobile |-> FALSE,
            tablet |-> FALSE, desktop |-> FALSE]
Query(w) == [asked |-> TRUE, w |-> w, bp |-> getCurrentBreakpoint(w),
             mobile |-> isMobile(w), tablet |-> isTablet(w),
             desktop |-> isDesktop(w)]

\* onViewportChange's subscription.  state: none, on (listeners added) or
\* off (listeners removed); timer: the debounce's pending timer; calls: the
\* invocations of the callback so far, atReturn: those made before
\* onViewportChange returned, afterOff: those made after the unsubscribe;
\* arg: the breakpoint last passed to the callback.
NoSub == [state |-> "none", timer |-> 0, calls |-> 0, atReturn |-> 0,
          afterOff |-> 0, arg |-> "none"]

\* Helpers.debounce's executedFunction (immediate = false): clearTimeout,
\* then setTimeout(later, wait).
debounced(s) == [s EXCEPT !.timer = 1]

\* The debounce's timer: later() calls func, which calls the callback.
later(s, w) ==
    [s EXCEPT !.timer = 0, !.calls = @ + 1,
              !.arg = getCurrentBreakpoint(w),
              !.afterOff = IF s.state = "off" THEN @ + 1 ELSE @]

\* Number.prototype.toString of a scroll offset: the integer digits, and
\* the decimals if there are any ("100", "100.5").
numberToString(n) == IF n.frac = 0 THEN <<n.px>> ELSE <<n.px, n.frac>>

\* parseInt(string, 10): the integer digits only.
parseInt(str) == [px |-> str[1], frac |-> 0]

\* The body unlocked; data = <<>>: no data-scroll-y.  pre, op and had
\* record the offset before the last lockScroll, the last operation, and
\* whether the last unlockScroll found data-scroll-y.
NoLock == [y |-> Zero, position |-> "", top |-> <<>>, width |-> "",
           data |-> <<>>, pre |-> Zero, op |-> "none", had |-> FALSE]

\* lockScroll; with the body fixed nothing is left to scroll: the window's
\* offset is 0.
lockScroll(L) ==
    [L EXCEPT !.position = "fixed", !.top = numberToString(L.y),
              !.width = "100%", !.data = numberToString(L.y),
              !.pre = L.y, !.op = "lock", !.y = Zero]

unlockScroll(L) ==
    [L EXCEPT !.position = "", !.top = <<>>, !.width = "",
              !.y = IF L.data # <<>> THEN parseInt(L.data) ELSE @,
              !.data = <<>>, !.op = "unlock", !.had = (L.data # <<>>)]

\* The farthest the window scrolls: the document's height less the
\* viewport's, in tenths of a pixel.
Tenths(n) == 10 * n.px + n.frac
MaxScroll(d) == 10 * Max(0, d.scrollHeight - d.vh)

\* onScroll's subscription.  on: the listener is added; inThrottle:
\* Helpers.throttle's flag; called: the callback has run; nan, num, den:
\* the progress it was last passed, not-a-number or num / den.
NoProg == [on |-> FALSE, inThrottle |-> FALSE, called |-> FALSE,
           nan |-> FALSE, num |-> 0, den |-> 1]

\* position.y / (scrollHeight - viewport.height), then
\* Math.min(1, Math.max(0, progress)).
progress(y, d) ==
    LET denom == 10 * (d.scrollHeight - d.vh)
    IN IF denom = 0
         THEN IF Tenths(y) = 0
                THEN [nan |-> TRUE, num |-> 0, den |-> 1]     \* 0 / 0
                ELSE [nan |-> FALSE, num |-> 1, den |-> 1]    \* Infinity
         ELSE IF denom < 0 \/ Tenths(y) = 0
                THEN [nan |-> FALSE, num |-> 0, den |-> 1]
              ELSE IF Tenths(y) >= denom
                THEN [nan |-> FALSE, num |-> 1, den |-> 1]
              ELSE [nan |-> FALSE, num |-> Tenths(y), den |-> denom]

\* The throttled scroll listener of onScroll.
throttledCallback(P, y, d) ==
    IF ~P.on \/ P.inThrottle
      THEN P
      ELSE [P EXCEPT !.inThrottle = TRUE, !.called = TRUE,
                     !.nan = progress(y, d).nan,
                     !.num = progress(y, d).num,
                     !.den = progress(y, d).den]

----------------------------------------------------------------------------
(* Helpers.debounce *)

\* The arguments a debounced function is called with.
DebounceArgs == {1, 2, 3}

\* The closure of Helpers.debounce(func, wait) before its first call.
\* timeout: the closure's variable, a timer's id or 0 (undefined, null);
\* timers: the timers setTimeout made that have neither fired nor been
\* cleared, each with the arguments its `later` holds; next: the id the
\* next setTimeout returns.  calls: the calls of the burst, a burst being
\* the calls made while a timer is pending; lastArg: the last call's
\* argument; invoked: the arguments func was invoked with since the burst
\* began.
NoDebounce == [timeout |-> 0, timers |-> {}, next |-> 1, calls |-> 0,
               lastArg |-> 0, invoked |-> <<>>]

clearTimeout(T, id) == {t \in T : t.id # id}

\* An executedFunction that does not clear the pending timer.
executedFunction_NoClear(D, a) ==
    LET fresh == D.timers = {}
    IN [D EXCEPT !.timers = D.timers \cup {[id |-> D.next, arg |-> a]},
                 !.timeout = D.next,
                 !.next = @ + 1,
                 !.calls = IF fresh THEN 1 ELSE @ + 1,
                 !.lastArg = a,
                 !.invoked = IF fresh THEN <<>> ELSE @]

\* executedFunction(a) of Helpers.debounce(func, wait), immediate being
\* false: callNow is false, the timer is cleared and set anew.
executedFunction(D, a) ==
    LET fresh == D.timers = {}
    IN [D EXCEPT !.timers = clearTimeout(D.timers, D.timeout)
                                \cup {[id |-> D.next, arg |-> a]},
                 !.timeout = D.next,
                 !.next = @ + 1,
                 !.calls = IF fresh THEN 1 ELSE @ + 1,
                 !.lastArg = a,
                 !.invoked = IF fresh THEN <<>> ELSE @]

\* The timer t fires: `later` of the call that set it.
debounceLater(D, t) ==
    [D EXCEPT !.timers = @ \ {t},
              !.timeout = 0,
              !.invoked = Append(@, t.arg)]

----------------------------------------------------------------------------
(* DOMediaApp.handleError *)

\* The events DOMediaApp listens to for errors: window's 'error' and
\* 'unhandledrejection', the document's 'appError'.
ErrorEvents == {"error", "unhandledrejection", "appError"}

\* What such an event carries as event.error, event.reason or
\* event.detail: an Error object, a string, null or undefined.
ErrorValues == {"Error", "string", "null", "undefined"}

\* No error event handled yet.  shown: showErrorMessage has appended the
\* notification; reported: reportError has logged the report; threw: the
\* listener has thrown.
NoError == [event |-> "none", value |-> "none", shown |-> FALSE,
            reported |-> FALSE, threw |-> FALSE]

\* reportError(error) throws: it reads error.message, a TypeError when
\* error is null or undefined.
reportErrorThrows(v) == v \in {"null", "undefined"}

\* handleError(error), as the listener of event ev calls it:
\* showErrorMessage() first, then reportError(error).
handleError(ev, v) ==
    [event |-> ev, value |-> v, shown |-> TRUE,
     reported |-> ~reportErrorThrows(v), threw |-> reportErrorThrows(v)]

\* The notifications one error event brings: handleError's own, and, when
\* the listener throws, the one for its TypeError, which reaches window's
\* 'error' listener unless it was thrown while an 'error' event is being
\* reported.
errorNotifications(ev, v) ==
    IF reportErrorThrows(v) /\ ev # "error" THEN 2 ELSE 1

----------------------------------------------------------------------------
(* LaptopEnhancer and ButtonEnhancer *)

\* LaptopEnhancer before setup.  done: setup() has run; listeners: its
\* listeners are added; interval: its setInterval runs; imgMax, frameMax,
\* showcaseMax: the inline max-width in px (0: none); sizedFor: the width
\* adjustSizeForViewport last read (-1: never); timers: pending timers of
\* its debounce; threw: one of its handlers or methods has thrown; move:
\* what its last mousemove handler did to the target's inline transform
\* ("none": there was no mousemove yet).
NoLaptop == [done |-> FALSE, isInitialized |-> FALSE, listeners |-> FALSE,
             interval |-> FALSE, imgMax |-> 0, frameMax |-> 0,
             showcaseMax |-> 0, sizedFor |-> -1, timers |-> 0,
             threw |-> FALSE, move |-> "none"]

NoButton == [done |-> FALSE, isInitialized |-> FALSE, listeners |-> FALSE,
             threw |-> FALSE, move |-> "none"]

\* LaptopEnhancer.handleMouseMove at viewport width w: it returns before
\* it touches the element, or it assigns the 3D rotation to its transform.
handleMouseMove(w) == IF w <= 768 THEN "skipped" ELSE "tilted"

\* ButtonEnhancer.addMouseMoveEffect at viewport width w: it assigns the
\* 3D tilt to the button's transform (it does not read the width).
addMouseMoveEffect(w) == "tilted"

\* A tier table whose top tier starts above 1400.
maxWidth_Above1400(w) ==
    IF w > 1400 THEN 800
    ELSE IF w >= 1200 THEN 750
    ELSE IF w >= 992 THEN 650
    ELSE IF w >= 768 THEN 580
    ELSE IF w >= 576 THEN 520
    ELSE 450

\* adjustSizeForViewport's maxWidth, in px.
maxWidth(w) ==
    IF w >= 1400 THEN 800
    ELSE IF w >= 1200 THEN 750
    ELSE IF w >= 992 THEN 650
    ELSE IF w >= 768 THEN 580
    ELSE IF w >= 576 THEN 520
    ELSE 450

adjustSizeForViewport(L, e, w) ==
    [L EXCEPT !.imgMax = IF e.image THEN maxWidth(w) ELSE @,
              !.frameMax = IF e.frame THEN maxWidth(w) + 50 ELSE @,
              !.showcaseMax = IF e.showcase THEN maxWidth(w) + 50 ELSE @,
              !.sizedFor = w]

\* LaptopEnhancer.setup().
laptopSetup(L, e, w) ==
    IF ~e.container /\ ~e.image
      THEN [L EXCEPT !.done = TRUE]
      ELSE [adjustSizeForViewport(L, e, w) EXCEPT
                !.done = TRUE, !.isInitialized = TRUE, !.listeners = TRUE,
                !.interval = TRUE]

\* LaptopEnhancer's debounce(func, wait): it returns the debounced
\* function and sets no timer; the resize listener drops what it returns.
laptopDebounce(L) == L

\* Whether LaptopEnhancer's handler of event ev throws: handleDoubleClick
\* calls showFullscreenPreview, which clones this.laptopImage.
laptopHandlerThrows(e, ev) == ev = "dblclick" /\ ~e.image

\* Whether ButtonEnhancer's handler of event ev, or its public method ev,
\* throws: each touches only this.ctaButton, which setup() found, and the
\* methods return at once when the enhancer is not initialised.
buttonHandlerThrows(ev) == FALSE

\* No fullscreen preview yet.  overlay: the overlay is in the document
\* ("shown"), in the document with the timer of its removal pending
\* ("fading"), or not in the document; escape: the keydown listeners
\* showFullscreenPreview has added to the document and that are still
\* registered; by: what dismissed the overlay last.
NoPreview == [overlay |-> "none", escape |-> 0, by |-> "none"]

\* showFullscreenPreview(), .laptop-image being there: the overlay is
\* appended and its handleEscape added to the document.
showFullscreenPreview(P) ==
    [P EXCEPT !.overlay = "shown", !.escape = @ + 1, !.by = "none"]

\* closeFullscreen of the overlay in the document: the fade-out and the
\* timer of overlay.remove().  On an overlay that is removed already it
\* changes nothing of the document.
closeFullscreen(P) ==
    [P EXCEPT !.overlay = IF @ = "none" THEN "none" ELSE "fading"]

\* keydown with key 'Escape': every registered handleEscape calls its
\* closeFullscreen and removes itself.
handleEscape(P) ==
    IF P.escape = 0
      THEN P
      ELSE [closeFullscreen(P) EXCEPT
                !.escape = 0,
                !.by = IF P.overlay = "shown" THEN "escape" ELSE @]

\* ButtonEnhancer.setup().
buttonSetup(B, e) ==
    IF ~e.button
      THEN [B EXCEPT !.done = TRUE]
      ELSE [B EXCEPT !.done = TRUE, !.isInitialized = TRUE,
                     !.listeners = TRUE]

----------------------------------------------------------------------------
(* Navigation: the menu *)

ClosedMenu == [open |-> FALSE, navActive |-> FALSE, btnActive |-> FALSE,
               aria |-> "false", text |-> "hamburger"]

Dom(m) == [navActive |-> m.navActive, btnActive |-> m.btnActive,
           aria |-> m.aria, text |-> m.text]

\* A closeMobileMenu that leaves aria-expanded as it finds it.
closeMobileMenu_KeepsAria(m) ==
    LET m1 == [m EXCEPT !.open = FALSE,
                        !.navActive = IF hasNav THEN FALSE ELSE @,
                        !.btnActive = IF hasBtn THEN FALSE ELSE @]
    IN IF ~hasBtn
         THEN [m |-> m1, ev |-> <<>>, threw |-> 1, focus |-> 0,
               calls |-> <<"close">>]
         ELSE [m |-> [m1 EXCEPT !.text = "hamburger"],
               ev |-> <<"mobileMenuClosed">>, threw |-> 0, focus |-> 0,
               calls |-> <<"close">>]

\* closeMobileMenu: the menu after it, the notifications it dispatched and
\* whether it threw (mobileMenuBtn is null: TypeError at .textContent).
closeMobileMenu(m) ==
    LET m1 == [m EXCEPT !.open = FALSE,
                        !.navActive = IF hasNav THEN FALSE ELSE @,
                        !.btnActive = IF hasBtn THEN FALSE ELSE @]
    IN IF ~hasBtn
         THEN [m |-> m1, ev |-> <<>>, threw |-> 1, focus |-> 0,
               calls |-> <<"close">>]
         ELSE [m |-> [m1 EXCEPT !.text = "hamburger", !.aria = "false"],
               ev |-> <<"mobileMenuClosed">>, threw |-> 0, focus |-> 0,
               calls |-> <<"close">>]

\* An openMobileMenu that forgets the 'active' class of #mobileMenuBtn.
openMobileMenu_NoButtonClass(m) ==
    LET m1 == [m EXCEPT !.open = TRUE,
                        !.navActive = IF hasNav THEN TRUE ELSE @]
        m2 == [m1 EXCEPT !.text = "cross", !.aria = "true"]
    IN IF ~hasBtn
         THEN [m |-> m1, ev |-> <<>>, threw |-> 1, focus |-> 0,
               calls |-> <<"open">>]
         ELSE IF ~hasNav
           THEN [m |-> m2, ev |-> <<>>, threw |-> 1, focus |-> 0,
                 calls |-> <<"open">>]
           ELSE [m |-> m2, ev |-> <<"mobileMenuOpened">>, threw |-> 0,
                 focus |-> 1, calls |-> <<"open">>]

\* openMobileMenu: as above; focus is the number of focus timers it set.
openMobileMenu(m) ==
    LET m1 == [m EXCEPT !.open = TRUE,
                        !.navActive = IF hasNav THEN TRUE ELSE @,
                        !.btnActive = IF hasBtn THEN TRUE ELSE @]
        m2 == [m1 EXCEPT !.text = "cross", !.aria = "true"]
    IN IF ~hasBtn
         THEN [m |-> m1, ev |-> <<>>, threw |-> 1, focus |-> 0,
               calls |-> <<"open">>]
         ELSE IF ~hasNav
           THEN [m |-> m2, ev |-> <<>>, threw |-> 1, focus |-> 0,
                 calls |-> <<"open">>]
           ELSE [m |-> m2, ev |-> <<"mobileMenuOpened">>, threw |-> 0,
                 focus |-> 1, calls |-> <<"open">>]

NoCall(m) == [m |-> m, ev |-> <<>>, threw |-> 0, focus |-> 0, calls |-> <<>>]

\* Two listeners, or two calls, one after the other.
Then(r1, r2) == [m |-> r2.m, ev |-> r1.ev \o r2.ev,
                 threw |-> r1.threw + r2.threw, focus |-> r1.focus + r2.focus,
                 calls |-> r1.calls \o r2.calls]

toggleMobileMenu(m) ==
    IF m.open THEN closeMobileMenu(m) ELSE openMobileMenu(m)

\* A document-level click listener that tests #mainNav only.
documentClick_NoButtonTest(m, inNav, inBtn) ==
    IF ~m.open THEN NoCall(m)
    ELSE IF ~hasNav THEN [NoCall(m) EXCEPT !.threw = 1]
    ELSE IF inNav THEN NoCall(m)
    ELSE closeMobileMenu(m)

\* The document-level click listener, for a click whose target is inside
\* #mainNav (inNav) or inside #mobileMenuBtn (inBtn).
documentClick(m, inNav, inBtn) ==
    IF ~m.open THEN NoCall(m)
    ELSE IF ~hasNav THEN [NoCall(m) EXCEPT !.threw = 1]
    ELSE IF inNav THEN NoCall(m)
    ELSE IF ~hasBtn THEN [NoCall(m) EXCEPT !.threw = 1]
    ELSE IF inBtn THEN NoCall(m)
    ELSE closeMobileMenu(m)

----------------------------------------------------------------------------
(* Navigation: sections and scrolling *)

SectionExists(id) == id \in PageIds

RECURSIVE scanSections(_, _)
scanSections(i, scrollPos) ==
    IF i = 0 THEN "home"
    ELSE IF SectionExists(sections[i]) /\ OffsetTop(sections[i]) <= scrollPos
           THEN sections[i]
           ELSE scanSections(i - 1, scrollPos)

\* A getCurrentSection without the 100 px margin.
getCurrentSection_NoMargin(y) == scanSections(Len(sections), y)

getCurrentSection(y) == scanSections(Len(sections), y + 100)

LinkFor(id) == IF id \in LinkIds THEN id ELSE "none"

headerOffsetHeight == IF hasHeader THEN 60 ELSE 0

\* Helpers.smoothScrollTo's easing curve, in whole pixels.
easeInOutQuad(t, b, c, d) ==
    IF 2 * t < d
      THEN (2 * c * t * t) \div (d * d) + b
      ELSE LET u == 2 * t - d
           IN (c * (d * d + 2 * u * d - u * u)) \div (2 * d * d) + b

\* In the frame callback `this` is not Helpers (requestAnimationFrame calls
\* a plain function), and easeInOutQuad is local to smoothScrollTo: the
\* lookup this.easeInOutQuad finds nothing.
ThisHasEaseInOutQuad == FALSE

\* scrollToElement -> Helpers.smoothScrollTo: the frame callback it requests.
scrollToElement(id) ==
    [start |-> scrollY,
     target |-> OffsetTop(id) - (headerOffsetHeight + smoothScrollOffset),
     started |-> FALSE, elapsed |-> 0, due |-> FALSE]

----------------------------------------------------------------------------
(* Animations: the functions, on the record S of what they change *)

NoStyle == [opacity |-> "css", transition |-> FALSE, animateIn |-> FALSE]

AnimState == [animated |-> animatedElements, style |-> style,
              timers |-> timers]

\* opacity 0 and an offset transform, and no timer for the reveal.
hideThenReveal_NoTimer(S, e) ==
    [S EXCEPT !.style[e].opacity = "0"]

\* opacity 0 and an offset transform now, the reveal in a timer.
hideThenReveal(S, e) ==
    [S EXCEPT !.style[e].opacity = "0", !.timers[e] = @ + 1]

animateHeroHeading(S, e) == hideThenReveal(S, e)
animateLaptopFrame(S, e) == hideThenReveal(S, e)
animateCTAButton(S, e) == hideThenReveal(S, e)
animateGeneric(S, e) == hideThenReveal(S, e)

\* An animateElement that does not look into animatedElements.
animateElement_NoSetTest(S, e, reduced) ==
    IF reduced
      THEN S
      ELSE LET S1 == [S EXCEPT !.animated = @ \cup {e},
                               !.style[e].animateIn = TRUE]
           IN CASE e = "h1" -> animateHeroHeading(S1, e)
                [] e = "frame" -> animateLaptopFrame(S1, e)
                [] e = "cta" -> animateCTAButton(S1, e)
                [] OTHER -> animateGeneric(S1, e)

animateElement(S, e, reduced) ==
    IF e \in S.animated \/ reduced
      THEN S
      ELSE LET S1 == [S EXCEPT !.animated = @ \cup {e},
                               !.style[e].animateIn = TRUE]
           IN CASE e = "h1" -> animateHeroHeading(S1, e)
                [] e = "frame" -> animateLaptopFrame(S1, e)
                [] e = "cta" -> animateCTAButton(S1, e)
                [] OTHER -> animateGeneric(S1, e)

\* The timer callback of kind k.
timerCallback(S, k) ==
    LET S1 == [S EXCEPT !.timers[k] = @ - 1]
        shown == [S1 EXCEPT !.style[k].transition = TRUE,
                            !.style[k].opacity = "1"]
    IN CASE k = "screen" ->      \* animateScreenContent
              [S1 EXCEPT !.style[Kid].opacity = "0", !.timers[Kid] = @ + 1]
         [] k = "frame" ->       \* the frame's reveal asks for its content's
              [shown EXCEPT !.timers["screen"] = @ + 1]
         [] OTHER -> shown

\* setupLoadAnimations, for the nav list items.
setupLoadAnimations(S, reduced) ==
    IF reduced THEN [S EXCEPT !.style[Item].opacity = "1"]
               ELSE hideThenReveal(S, Item)

\* animateMobileMenuItems, the listener of mobileMenuOpened.
animateMobileMenuItems(S, reduced) ==
    IF reduced THEN S ELSE hideThenReveal(S, Item)

WithinTimers(S) == \A k \in TimerKinds : S.timers[k] <= MaxTimers

SetAnimState(S) ==
    /\ WithinTimers(S)
    /\ animatedElements' = S.animated
    /\ style' = S.style
    /\ timers' = S.timers

\* Animations.init, as DOMediaApp.initModule calls it.
AnimationsInit ==
    /\ anim' = [anim EXCEPT !.isInitialized = TRUE, !.listening = TRUE,
                            !.prefersReducedMotion = mq,
                            !.bodyReduce = mq]
    /\ observed' = IF mq THEN observed ELSE Elems \ animatedElements
    /\ SetAnimState(setupLoadAnimations(AnimState, mq))
    /\ UNCHANGED <<mq, lastAnim, hist>>

----------------------------------------------------------------------------
(* What every handler leaves behind *)

\* An uncaught exception reaches window's 'error' listener once
\* setupGlobalEvents has installed it: handleGlobalError -> handleError ->
\* showErrorMessage appends one notification.
Raise(a, n) ==
    IF a.globalEvents /\ n > 0
      THEN [a EXCEPT !.errorNotes = @ + n]
      ELSE a

CanRaise(n) == app.globalEvents => app.errorNotes + n <= MaxNotes

\* op: the listener or timer callback of Navigation that ran last; pre: the
\* menu before it; calls: its calls of openMobileMenu / closeMobileMenu;
\* ev: the notifications it dispatched; threw: its uncaught exceptions;
\* scroll: it started a smooth scroll; warned: it logged a warning.
Last(op, r, scr, warned) ==
    [op |-> op, pre |-> menu, calls |-> r.calls, ev |-> r.ev,
     threw |-> r.threw, scroll |-> scr, warned |-> warned]

\* The menu part of a handler whose menu calls came to r.
MenuStep(op, r, scr, warned) ==
    /\ focusTimers + r.focus <= MaxTimers
    /\ CanRaise(r.threw)
    /\ menu' = r.m
    /\ focusTimers' = focusTimers + r.focus
    /\ app' = Raise(app, r.threw)
    /\ preOpen' = IF r.calls # <<>> /\ r.calls[1] = "open"
                     THEN [valid |-> TRUE, dom |-> Dom(menu)]
                     ELSE preOpen
    /\ last' = Last(op, r, scr, warned)
    /\ IF anim.listening /\ r.ev # <<>> /\ r.ev[1] = "mobileMenuOpened"
         THEN SetAnimState(animateMobileMenuItems(AnimState,
                                                  anim.prefersReducedMotion))
         ELSE UNCHANGED <<animatedElements, style, timers>>
    /\ UNCHANGED <<mq, anim, observed, lastAnim, hist>>

----------------------------------------------------------------------------
(* The initial state: the scripts are loaded, DOMContentLoaded has not run *)

NoScroll == [req |-> FALSE, target |-> 0, threw |-> FALSE]

InitAnimations ==
    /\ anim = [isInitialized |-> FALSE, listening |-> FALSE,
               prefersReducedMotion |-> FALSE, bodyReduce |-> FALSE]
    /\ observed = {}
    /\ animatedElements = {}
    /\ style = [e \in Styled |-> NoStyle]
    /\ timers = [k \in TimerKinds |-> 0]
    /\ lastAnim = [el |-> "none", had |-> FALSE, red |-> FALSE, same |-> TRUE]
    /\ hist = [started |-> {}, again |-> {}, lit |-> {}, destroyed |-> FALSE]

InitProgram ==
    /\ deb = NoDebounce
    /\ errs = NoError
    /\ preview = NoPreview
    /\ lap = NoLaptop
    /\ cta = NoButton
    /\ q = NoQuery
    /\ sub = NoSub
    /\ lock = NoLock
    /\ prog = NoProg
    /\ InitAnimations
    /\ scrollY = 0
    /\ app = [pc |-> "start", navInit |-> "no", animInit |-> FALSE,
              globalEvents |-> FALSE, errorNotes |-> 0,
              appLoaded |-> 0]
    /\ bound = FALSE
    /\ menu = ClosedMenu
    /\ currentSection = "home"
    /\ activeLink = "none"
    /\ headerScrolled = FALSE
    /\ closeTimers = 0
    /\ focusTimers = 0
    /\ resizePending = FALSE
    /\ inThrottle = FALSE
    /\ raf = <<>>
    /\ lastScroll = NoScroll
    /\ last = [op |-> "none", pre |-> ClosedMenu, calls |-> <<>>,
               ev |-> <<>>, threw |-> 0, scroll |-> FALSE, warned |-> FALSE]
    /\ preOpen = [valid |-> FALSE, dom |-> Dom(ClosedMenu)]

InitCommon ==
    /\ els = AllEls
    /\ page = ThePage
    /\ doc = TheDoc
    /\ InitProgram

\* The page the scripts are written for.
Init ==
    /\ hasBtn = TRUE
    /\ hasNav = TRUE
    /\ mq = FALSE
    /\ hasHeader \in BOOLEAN
    /\ width \in Widths
    /\ InitCommon

\* The same page, with either motion preference.
InitAnim ==
    /\ hasBtn = TRUE
    /\ hasNav = TRUE
    /\ mq \in BOOLEAN
    /\ hasHeader = TRUE
    /\ width \in Widths
    /\ InitCommon

\* The same page on a desktop viewport, with either motion preference.
InitReveal ==
    /\ hasBtn = TRUE
    /\ hasNav = TRUE
    /\ mq \in BOOLEAN
    /\ hasHeader = TRUE
    /\ width = 769
    /\ InitCommon

\* Any page: a required element may be missing.
InitLoad ==
    /\ hasBtn \in BOOLEAN
    /\ hasNav \in BOOLEAN
    /\ mq = FALSE
    /\ hasHeader \in BOOLEAN
    /\ width \in Widths
    /\ InitCommon

\* Pages with other sections, to be scrolled.
InitScroll ==
    /\ hasBtn = TRUE
    /\ hasNav = TRUE
    /\ mq = FALSE
    /\ hasHeader = TRUE
    /\ width \in Widths
    /\ page \in Pages
    /\ els = AllEls
    /\ doc = TheDoc
    /\ InitProgram

\* The expected page at any width, for ViewportUtils.
InitViewport ==
    /\ hasBtn = TRUE
    /\ hasNav = TRUE
    /\ mq = FALSE
    /\ hasHeader = TRUE
    /\ width \in ViewWidths
    /\ InitCommon

\* Documents longer than the viewport or as long as it.
InitPage ==
    /\ hasBtn = TRUE
    /\ hasNav = TRUE
    /\ mq = FALSE
    /\ hasHeader = TRUE
    /\ width \in Widths
    /\ page = ThePage
    /\ els = AllEls
    /\ doc \in Docs
    /\ InitProgram

\* Pages with any of the enhancers' elements, at any width.
InitEnhancers ==
    /\ hasBtn = TRUE
    /\ hasNav = TRUE
    /\ mq = FALSE
    /\ hasHeader = TRUE
    /\ width \in LaptopWidths
    /\ page = ThePage
    /\ els \in ElSets
    /\ doc = TheDoc
    /\ InitProgram

----------------------------------------------------------------------------
(* DOMediaApp.init, with Navigation.init and Animations.init inside it *)

\* Navigation.handleInitialState's menu part.
handleInitialState(m) ==
    IF ~isMobile(width) THEN closeMobileMenu(m) ELSE NoCall(m)

AppInit ==
    /\ app.pc = "start"
    /\ LET r == handleInitialState(menu)
           ok == r.threw = 0
           ev == IF ok THEN r.ev \o <<"appLoaded">> ELSE r.ev
       IN /\ menu' = r.m
          /\ app' = IF ok
                      THEN [app EXCEPT !.pc = "loaded", !.navInit = "ok",
                                       !.animInit = TRUE,
                                       !.globalEvents = TRUE,
                                       !.appLoaded = 1]
                      ELSE [app EXCEPT !.pc = "failed", !.navInit = "threw",
                                       !.animInit = TRUE,
                                       !.errorNotes = 1]
          /\ last' = [Last("init", r, FALSE, FALSE) EXCEPT !.ev = ev]
    /\ AnimationsInit
    /\ bound' = TRUE
    /\ currentSection' = getCurrentSection(scrollY)
    /\ activeLink' = LinkFor(getCurrentSection(scrollY))
    /\ UNCHANGED <<utilVars, hasBtn, hasNav, hasHeader, width, scrollY,
                   headerScrolled,
                   closeTimers, focusTimers, resizePending,
                   inThrottle, raf, lastScroll, preOpen>>

----------------------------------------------------------------------------
(* Navigation's listeners *)

\* A click on #mobileMenuBtn: the button's listener, then the document's.
ButtonClick ==
    /\ bound /\ hasBtn
    /\ LET r1 == toggleMobileMenu(menu)
       IN MenuStep("buttonClick", Then(r1, documentClick(r1.m, FALSE, TRUE)),
                   FALSE, FALSE)
    /\ UNCHANGED <<utilVars, hasBtn, hasNav, hasHeader, width, scrollY, bound,
                   currentSection, activeLink, headerScrolled, closeTimers,
                   resizePending, inThrottle, raf, lastScroll>>

\* An Escape listener without the test of isMobileMenuOpen.
EscapeKey_NoGuard ==
    /\ bound
    /\ MenuStep("escape", closeMobileMenu(menu), FALSE, FALSE)
    /\ UNCHANGED <<utilVars, hasBtn, hasNav, hasHeader, width, scrollY, bound,
                   currentSection, activeLink, headerScrolled, closeTimers,
                   resizePending, inThrottle, raf, lastScroll>>

\* keydown with key 'Escape'.
EscapeKey ==
    /\ bound
    /\ MenuStep("escape",
                IF menu.open THEN closeMobileMenu(menu) ELSE NoCall(menu),
                FALSE, FALSE)
    /\ UNCHANGED <<utilVars, hasBtn, hasNav, hasHeader, width, scrollY, bound,
                   currentSection, activeLink, headerScrolled, closeTimers,
                   resizePending, inThrottle, raf, lastScroll>>

\* A click outside #mainNav and outside #mobileMenuBtn.
OutsideClick ==
    /\ bound
    /\ MenuStep("outsideClick", documentClick(menu, FALSE, FALSE),
                FALSE, FALSE)
    /\ UNCHANGED <<utilVars, hasBtn, hasNav, hasHeader, width, scrollY, bound,
                   currentSection, activeLink, headerScrolled, closeTimers,
                   resizePending, inThrottle, raf, lastScroll>>

\* handleGetStarted's target: #contact, [data-section=contact] or the hero.
getStartedTarget == IF SectionExists("contact") THEN "contact" ELSE "home"

\* A handleNavClick that updates the active item before it looks for the
\* target.
NavLinkClick_UpdatesFirst(id) ==
    /\ bound
    /\ LET special == id = "get-started"
           found == ~special /\ SectionExists(id)
           scr == special \/ found
           tid == IF special THEN getStartedTarget ELSE id
           delayed == found /\ isMobile(width) /\ menu.open
           r == [documentClick(menu, TRUE, FALSE) EXCEPT
                     !.ev = IF special THEN <<"getStartedClicked">> \o @
                                       ELSE @]
       IN /\ scr => Len(raf) < MaxRaf
          /\ delayed => closeTimers < MaxTimers
          /\ raf' = IF scr THEN Append(raf, scrollToElement(tid)) ELSE raf
          /\ lastScroll' = IF scr
                             THEN [req |-> TRUE,
                                   target |-> scrollToElement(tid).target,
                                   threw |-> FALSE]
                             ELSE lastScroll
          /\ currentSection' = IF special THEN currentSection ELSE id
          /\ activeLink' = IF special THEN activeLink ELSE LinkFor(id)
          /\ closeTimers' = IF delayed THEN closeTimers + 1 ELSE closeTimers
          /\ MenuStep("navClick", r, scr, ~scr)
    /\ UNCHANGED <<utilVars, hasBtn, hasNav, hasHeader, width, scrollY, bound,
                   headerScrolled, resizePending, inThrottle>>

\* A click on the nav link with href "#id": handleNavClick, then the
\* document's listener (the link is inside #mainNav).
NavLinkClick(id) ==
    /\ bound
    /\ LET special == id = "get-started"
           found == ~special /\ SectionExists(id)
           scr == special \/ found
           tid == IF special THEN getStartedTarget ELSE id
           delayed == found /\ isMobile(width) /\ menu.open
           r == [documentClick(menu, TRUE, FALSE) EXCEPT
                     !.ev = IF special THEN <<"getStartedClicked">> \o @
                                       ELSE @]
       IN /\ scr => Len(raf) < MaxRaf
          /\ delayed => closeTimers < MaxTimers
          /\ raf' = IF scr THEN Append(raf, scrollToElement(tid)) ELSE raf
          /\ lastScroll' = IF scr
                             THEN [req |-> TRUE,
                                   target |-> scrollToElement(tid).target,
                                   threw |-> FALSE]
                             ELSE lastScroll
          /\ currentSection' = IF found THEN id ELSE currentSection
          /\ activeLink' = IF found THEN LinkFor(id) ELSE activeLink
          /\ closeTimers' = IF delayed THEN closeTimers + 1 ELSE closeTimers
          /\ MenuStep("navClick", r, scr, ~scr)
    /\ UNCHANGED <<utilVars, hasBtn, hasNav, hasHeader, width, scrollY, bound,
                   headerScrolled, resizePending, inThrottle>>

\* A delayed close that toggles the menu.
CloseTimerFire_Toggle ==
    /\ closeTimers > 0
    /\ closeTimers' = closeTimers - 1
    /\ MenuStep("closeTimer", toggleMobileMenu(menu), FALSE, FALSE)
    /\ UNCHANGED <<utilVars, hasBtn, hasNav, hasHeader, width, scrollY, bound,
                   currentSection, activeLink, headerScrolled, resizePending,
                   inThrottle, raf, lastScroll>>

\* The timer of handleNavClick's delayed close.
CloseTimerFire ==
    /\ closeTimers > 0
    /\ closeTimers' = closeTimers - 1
    /\ MenuStep("closeTimer", closeMobileMenu(menu), FALSE, FALSE)
    /\ UNCHANGED <<utilVars, hasBtn, hasNav, hasHeader, width, scrollY, bound,
                   currentSection, activeLink, headerScrolled, resizePending,
                   inThrottle, raf, lastScroll>>

\* The timer of openMobileMenu's focus: the first nav link gets the focus.
FocusTimerFire ==
    /\ focusTimers > 0
    /\ focusTimers' = focusTimers - 1
    /\ last' = Last("focusTimer", NoCall(menu), FALSE, FALSE)
    /\ UNCHANGED animVars
    /\ UNCHANGED <<utilVars, hasBtn, hasNav, hasHeader, width, scrollY, app,
                   bound,
                   menu, currentSection, activeLink, headerScrolled,
                   closeTimers, resizePending, inThrottle, raf, lastScroll,
                   preOpen>>

\* A resize event: Helpers.debounce restarts its 250 ms timer.
ResizeEvent(w) ==
    /\ bound
    /\ width' = w
    /\ resizePending' = TRUE
    /\ UNCHANGED animVars
    /\ UNCHANGED <<utilVars, hasBtn, hasNav, hasHeader, scrollY, app, bound,
                   menu,
                   currentSection, activeLink, headerScrolled, closeTimers,
                   focusTimers, inThrottle, raf, lastScroll, last,
                   preOpen>>

\* The debounce timer: handleResize.
handleResize ==
    /\ resizePending
    /\ resizePending' = FALSE
    /\ MenuStep("handleResize",
                IF ~isMobile(width) /\ menu.open THEN closeMobileMenu(menu)
                                                 ELSE NoCall(menu),
                FALSE, FALSE)
    /\ UNCHANGED <<utilVars, hasBtn, hasNav, hasHeader, width, scrollY, bound,
                   currentSection, activeLink, headerScrolled, closeTimers,
                   inThrottle, raf, lastScroll>>

\* A scroll event by the user: Helpers.throttle lets handleScroll run
\* unless it is inside its 100 ms limit.
ScrollEvent(y) ==
    /\ bound
    /\ scrollY' = y
    /\ IF ~inThrottle
         THEN /\ currentSection' = getCurrentSection(y)
              /\ activeLink' = LinkFor(getCurrentSection(y))
              /\ headerScrolled' = (hasHeader /\ y > 50)
              /\ inThrottle' = TRUE
              /\ last' = Last("handleScroll", NoCall(menu), FALSE, FALSE)
         ELSE UNCHANGED <<currentSection, activeLink, headerScrolled,
                          inThrottle, last>>
    /\ UNCHANGED animVars
    /\ UNCHANGED <<utilVars, hasBtn, hasNav, hasHeader, width, app, bound,
                   menu,
                   closeTimers, focusTimers, resizePending, raf,
                   lastScroll, preOpen>>

\* The throttle's timer.
ThrottleRelease ==
    /\ inThrottle
    /\ inThrottle' = FALSE
    /\ UNCHANGED animVars
    /\ UNCHANGED <<utilVars, hasBtn, hasNav, hasHeader, width, scrollY, app,
                   bound,
                   menu, currentSection, activeLink, headerScrolled,
                   closeTimers, focusTimers, resizePending, raf,
                   lastScroll, last, preOpen>>

----------------------------------------------------------------------------
(* Helpers.smoothScrollTo's animation *)

RemoveAt(s, i) == SubSeq(s, 1, i - 1) \o SubSeq(s, i + 1, Len(s))

\* One call of the frame callback `animation`.
ScrollFrame(i) ==
    /\ raf[i].due
    /\ LET e == raf[i]
       IN IF ThisHasEaseInOutQuad
            THEN /\ scrollY' = Max(0, easeInOutQuad(e.elapsed, e.start,
                                                    e.target - e.start,
                                                    smoothScrollDuration))
                 /\ raf' = IF e.elapsed < smoothScrollDuration
                             THEN [raf EXCEPT ![i].due = FALSE,
                                              ![i].started = TRUE]
                             ELSE RemoveAt(raf, i)
                 /\ UNCHANGED <<app, lastScroll>>
            ELSE /\ CanRaise(1)
                 /\ raf' = RemoveAt(raf, i)
                 /\ app' = Raise(app, 1)
                 /\ lastScroll' = [lastScroll EXCEPT !.threw = TRUE]
                 /\ UNCHANGED scrollY
    /\ UNCHANGED animVars
    /\ UNCHANGED <<utilVars, hasBtn, hasNav, hasHeader, width, bound, menu,
                   currentSection, activeLink, headerScrolled, closeTimers,
                   focusTimers, resizePending, inThrottle, last,
                   preOpen>>

\* The display's next frame, FrameMs after the last: every requested
\* callback is due (a callback's first call sets its startTime).
NextFrame ==
    /\ raf # <<>>
    /\ \A i \in DOMAIN raf : ~raf[i].due
    /\ raf' = [i \in DOMAIN raf |->
                  [raf[i] EXCEPT !.elapsed = IF raf[i].started
                                               THEN @ + FrameMs ELSE @,
                                 !.due = TRUE]]
    /\ UNCHANGED animVars
    /\ UNCHANGED <<utilVars, hasBtn, hasNav, hasHeader, width, scrollY, app,
                   bound,
                   menu, currentSection, activeLink, headerScrolled,
                   closeTimers, focusTimers, resizePending,
                   inThrottle, lastScroll, last, preOpen>>

\* An error event whose error, reason or detail is v: handleGlobalError or
\* handleError.
ErrorEvent(ev, v) ==
    /\ app.globalEvents
    /\ app.errorNotes + errorNotifications(ev, v) <= MaxNotes
    /\ app' = [app EXCEPT !.errorNotes = @ + errorNotifications(ev, v)]
    /\ errs' = handleError(ev, v)
    /\ UNCHANGED <<deb, preview, enhVars, page, doc, q, sub, lock, prog, width,
                   hasBtn, hasNav, hasHeader, scrollY, bound, menu,
                   currentSection, activeLink, headerScrolled, closeTimers,
                   focusTimers, resizePending, inThrottle, raf, lastScroll,
                   last, preOpen, animVars>>

\* showErrorMessage's 10 s timer removes a notification.
ErrorNoteExpire ==
    /\ app.errorNotes > 0
    /\ app' = [app EXCEPT !.errorNotes = @ - 1]
    /\ UNCHANGED animVars
    /\ UNCHANGED <<utilVars, hasBtn, hasNav, hasHeader, width, scrollY, bound,
                   menu,
                   currentSection, activeLink, headerScrolled, closeTimers,
                   focusTimers, resizePending, inThrottle, raf,
                   lastScroll, last, preOpen>>

----------------------------------------------------------------------------
(* Animations' listeners and timers *)

\* What a call animateElement(e) leaves behind, S being the state after it.
AnimateStep(S, e) ==
    LET ran == S # AnimState
    IN /\ SetAnimState(S)
       /\ lastAnim' = [el |-> e, had |-> e \in animatedElements,
                       red |-> anim.prefersReducedMotion, same |-> ~ran]
       /\ hist' = IF ran
                    THEN [hist EXCEPT !.started = @ \cup {e},
                                      !.again = IF e \in hist.started
                                                  THEN @ \cup {e} ELSE @]
                    ELSE hist

\* The IntersectionObserver's callback, for one entry.
Intersect(e, isIntersecting) ==
    /\ e \in observed
    /\ IF isIntersecting
         THEN /\ AnimateStep(animateElement(AnimState, e,
                                            anim.prefersReducedMotion), e)
              /\ observed' = observed \ {e}
         ELSE UNCHANGED <<observed, animatedElements, style, timers,
                          lastAnim, hist>>
    /\ UNCHANGED <<mq, anim>>
    /\ UNCHANGED navVars

\* A direct call of the public Animations.animateElement, by a script of
\* the loaded page.
AnimateElementCall(e) ==
    /\ app.pc # "start"
    /\ AnimateStep(animateElement(AnimState, e, anim.prefersReducedMotion), e)
    /\ UNCHANGED <<mq, anim, observed>>
    /\ UNCHANGED navVars

\* A timer of Animations fires.
TimerFire(k) ==
    /\ timers[k] > 0
    /\ SetAnimState(timerCallback(AnimState, k))
    /\ hist' = IF anim.prefersReducedMotion /\ k \in Styled
                 THEN [hist EXCEPT !.lit = @ \cup {k}]
                 ELSE hist
    /\ UNCHANGED <<mq, anim, observed, lastAnim>>
    /\ UNCHANGED navVars

\* The media query's change event.
MotionChange(m) ==
    /\ anim.listening
    /\ m # mq
    /\ mq' = m
    /\ anim' = [anim EXCEPT !.prefersReducedMotion = m,
                            !.bodyReduce = @ \/ m]
    /\ UNCHANGED <<observed, animatedElements, style, timers, lastAnim, hist>>
    /\ UNCHANGED navVars

\* beforeunload: handleUnload calls destroy() of the initialised modules
\* (Navigation.destroy changes nothing).
Destroy ==
    /\ app.globalEvents
    /\ anim' = [anim EXCEPT !.isInitialized = FALSE]
    /\ observed' = {}
    /\ animatedElements' = {}
    /\ hist' = [hist EXCEPT !.destroyed = TRUE]
    /\ UNCHANGED <<mq, style, timers, lastAnim>>
    /\ UNCHANGED navVars

----------------------------------------------------------------------------
(* ViewportUtils, called by a script of the page *)

\* onViewportChange(callback): two listeners, then the "initial call" of
\* the debounced function.
onViewportChange ==
    /\ sub.state = "none"
    /\ LET s1 == debounced(sub)
       IN sub' = [s1 EXCEPT !.state = "on",
                            !.atReturn = s1.calls - sub.calls]
    /\ UNCHANGED <<enhVars, page, doc, q, lock, prog, width, helpVars, coreVars,
                   animVars>>

\* A resize event to width w.
ViewportResize(w) ==
    /\ width' = w
    /\ sub' = IF sub.state = "on" THEN debounced(sub) ELSE sub
    /\ UNCHANGED <<enhVars, page, doc, q, lock, prog, helpVars, coreVars, animVars>>

\* An orientationchange event.
OrientationChange ==
    /\ sub.state = "on"
    /\ sub' = debounced(sub)
    /\ UNCHANGED <<enhVars, page, doc, q, lock, prog, width, helpVars, coreVars,
                   animVars>>

\* The debounce's timer fires.
DebounceFire ==
    /\ sub.timer = 1
    /\ sub.calls < MaxCalls
    /\ sub' = later(sub, width)
    /\ UNCHANGED <<enhVars, page, doc, q, lock, prog, width, helpVars, coreVars,
                   animVars>>

\* The function onViewportChange returned.
Unsubscribe ==
    /\ sub.state = "on"
    /\ sub' = [sub EXCEPT !.state = "off"]
    /\ UNCHANGED <<enhVars, page, doc, q, lock, prog, width, helpVars, coreVars,
                   animVars>>

\* getCurrentBreakpoint(), isMobile(), isTablet() and isDesktop().
ViewportQuery ==
    /\ q' = Query(width)
    /\ UNCHANGED <<enhVars, page, doc, sub, lock, prog, width, helpVars, coreVars,
                   animVars>>

\* ViewportUtils.lockScroll().
LockScroll ==
    /\ lock' = lockScroll(lock)
    /\ UNCHANGED <<enhVars, page, doc, q, sub, prog, width, helpVars, coreVars,
                   animVars>>

\* ViewportUtils.unlockScroll(); window.scrollTo dispatches a scroll event
\* when it moves the window.
UnlockScroll ==
    /\ lock' = unlockScroll(lock)
    /\ prog' = IF unlockScroll(lock).y # lock.y
                 THEN throttledCallback(prog, unlockScroll(lock).y, doc)
                 ELSE prog
    /\ UNCHANGED <<enhVars, page, doc, q, sub, width, helpVars, coreVars, animVars>>

\* The user scrolls the window to offset y.
PageScroll(y) ==
    /\ lock.position # "fixed"
    /\ y # lock.y
    /\ Tenths(y) <= MaxScroll(doc)
    /\ lock' = [lock EXCEPT !.y = y, !.op = "scroll"]
    /\ prog' = throttledCallback(prog, y, doc)
    /\ UNCHANGED <<enhVars, page, doc, q, sub, width, helpVars, coreVars, animVars>>

\* The viewport's height changes (the window is resized, a mobile
\* browser's address bar shows or hides): an offset past the new end is
\* brought back to it, with a scroll event.
ViewportHeightChange(h) ==
    /\ h # doc.vh
    /\ doc' = [doc EXCEPT !.vh = h]
    /\ IF lock.position # "fixed" /\ Tenths(lock.y) > MaxScroll(doc')
         THEN LET y1 == [px |-> MaxScroll(doc') \div 10, frac |-> 0]
              IN /\ lock' = [lock EXCEPT !.y = y1, !.op = "scroll"]
                 /\ prog' = throttledCallback(prog, y1, doc')
         ELSE UNCHANGED <<lock, prog>>
    /\ UNCHANGED <<enhVars, page, q, sub, width, helpVars, coreVars, animVars>>

\* ViewportUtils.onScroll(callback).
onScroll ==
    /\ ~prog.on
    /\ prog' = [prog EXCEPT !.on = TRUE]
    /\ UNCHANGED <<enhVars, page, doc, q, sub, lock, width, helpVars, coreVars,
                   animVars>>

\* The timer of onScroll's throttle.
ProgressThrottleRelease ==
    /\ prog.inThrottle
    /\ prog' = [prog EXCEPT !.inThrottle = FALSE]
    /\ UNCHANGED <<enhVars, page, doc, q, sub, lock, width, helpVars, coreVars,
                   animVars>>

----------------------------------------------------------------------------
(* A debounced function, called by any script *)

\* A call of the debounced function with argument a.
DebouncedCall(a) ==
    /\ deb.next <= MaxDebounced
    /\ deb' = executedFunction(deb, a)
    /\ UNCHANGED <<errs, preview, enhVars, page, doc, q, sub, lock, prog, width, coreVars,
                   animVars>>

\* A timer of the debounce fires.
DebounceTimer(t) ==
    /\ t \in deb.timers
    /\ deb' = debounceLater(deb, t)
    /\ UNCHANGED <<errs, preview, enhVars, page, doc, q, sub, lock, prog, width, coreVars,
                   animVars>>

----------------------------------------------------------------------------
(* The enhancers' listeners *)

\* DOMContentLoaded: both enhancers' setup().
EnhancersSetup ==
    /\ ~lap.done
    /\ lap' = laptopSetup(lap, els, width)
    /\ cta' = buttonSetup(cta, els)
    /\ UNCHANGED <<els, page, doc, q, sub, lock, prog, width, helpVars, coreVars,
                   animVars>>

\* A resize event to width w: LaptopEnhancer's listener calls
\* this.debounce(...) and nothing else.
LaptopResize(w) ==
    /\ lap.done
    /\ w # width
    /\ width' = w
    /\ lap' = IF lap.listeners THEN laptopDebounce(lap) ELSE lap
    /\ UNCHANGED <<els, cta, page, doc, q, sub, lock, prog, helpVars, coreVars,
                   animVars>>

\* An event LaptopEnhancer listens to, or its interval.
LaptopEvent(ev) ==
    /\ lap.listeners
    /\ ev \in ImageEvents => els.image
    /\ ev \in TargetEvents => preview.overlay = "none"
    /\ IF ev = "dblclick" /\ els.image
         THEN /\ preview.escape < MaxPreviews
              /\ preview' = showFullscreenPreview(preview)
         ELSE UNCHANGED preview
    /\ lap' = [lap EXCEPT !.threw = @ \/ laptopHandlerThrows(els, ev),
                          !.move = IF ev = "mousemove"
                                     THEN handleMouseMove(width) ELSE @]
    /\ UNCHANGED <<els, cta, page, doc, q, sub, lock, prog, width, deb, errs, coreVars,
                   animVars>>

\* A click on the preview's overlay, or on its close button (the click
\* bubbles to the overlay): closeFullscreen.
PreviewClick(on) ==
    /\ preview.overlay # "none"
    /\ preview' = [closeFullscreen(preview) EXCEPT
                      !.by = IF preview.overlay = "shown" THEN on ELSE @]
    /\ UNCHANGED <<deb, errs, enhVars, page, doc, q, sub, lock, prog, width,
                   coreVars, animVars>>

\* keydown with key 'Escape', for the previews' listeners.
PreviewEscape ==
    /\ preview' = handleEscape(preview)
    /\ UNCHANGED <<deb, errs, enhVars, page, doc, q, sub, lock, prog, width,
                   coreVars, animVars>>

\* The timer closeFullscreen set: overlay.remove().
PreviewRemove ==
    /\ preview.overlay = "fading"
    /\ preview' = [preview EXCEPT !.overlay = "none"]
    /\ UNCHANGED <<deb, errs, enhVars, page, doc, q, sub, lock, prog, width,
                   coreVars, animVars>>

\* A public method of LaptopEnhancer.
LaptopMethod(m) ==
    /\ lap.done
    /\ lap' = IF m = "enhanceSizeNow"
                THEN adjustSizeForViewport(lap, els, width)
                ELSE lap
    /\ UNCHANGED <<els, cta, page, doc, q, sub, lock, prog, width, helpVars, coreVars,
                   animVars>>

\* An event ButtonEnhancer listens to.
CtaEvent(ev) ==
    /\ cta.listeners
    /\ cta' = [cta EXCEPT !.threw = @ \/ buttonHandlerThrows(ev),
                          !.move = IF ev = "mousemove"
                                     THEN addMouseMoveEffect(width) ELSE @]
    /\ UNCHANGED <<els, lap, page, doc, q, sub, lock, prog, width, helpVars, coreVars,
                   animVars>>

\* A public method of ButtonEnhancer.
CtaMethod(m) ==
    /\ cta.done
    /\ cta' = [cta EXCEPT !.threw = @ \/ buttonHandlerThrows(m)]
    /\ UNCHANGED <<els, lap, page, doc, q, sub, lock, prog, width, helpVars, coreVars,
                   animVars>>

----------------------------------------------------------------------------

Next ==
    \/ AppInit
    \/ ButtonClick
    \/ EscapeKey
    \/ OutsideClick
    \/ \E id \in LinkIds : NavLinkClick(id)
    \/ CloseTimerFire
    \/ FocusTimerFire
    \/ \E w \in Widths : ResizeEvent(w)
    \/ handleResize
    \/ \E i \in DOMAIN raf : ScrollFrame(i)
    \/ NextFrame
    \/ ErrorNoteExpire
    \/ \E k \in TimerKinds : TimerFire(k)

\* The page being scrolled, by the user and by the nav links.
NextScroll ==
    \/ AppInit
    \/ \E id \in LinkIds : NavLinkClick(id)
    \/ \E y \in ScrollYs : ScrollEvent(y)
    \/ ThrottleRelease
    \/ \E i \in DOMAIN raf : ScrollFrame(i)
    \/ NextFrame
    \/ ErrorNoteExpire

\* Pages of other sections, scrolled by the user.
NextSections ==
    \/ AppInit
    \/ \E y \in ScrollYs : ScrollEvent(y)
    \/ ThrottleRelease

\* The viewport, watched and queried.
NextViewport ==
    \/ onViewportChange
    \/ \E w \in ViewWidths : ViewportResize(w)
    \/ OrientationChange
    \/ DebounceFire
    \/ Unsubscribe
    \/ ViewportQuery

\* The window, scrolled and locked.
NextPage ==
    \/ LockScroll
    \/ UnlockScroll
    \/ \E y \in LockYs : PageScroll(y)
    \/ \E h \in ViewHeights : ViewportHeightChange(h)
    \/ onScroll
    \/ ProgressThrottleRelease

\* The fullscreen preview, opened and dismissed.
NextPreview ==
    \/ EnhancersSetup
    \/ \E ev \in TargetEvents : LaptopEvent(ev)
    \/ \E on \in {"overlay", "button"} : PreviewClick(on)
    \/ PreviewEscape
    \/ PreviewRemove

\* Errors reaching the coordinator.
NextErrors ==
    \/ AppInit
    \/ \E ev \in ErrorEvents, v \in ErrorValues : ErrorEvent(ev, v)
    \/ ErrorNoteExpire

\* A debounced function, called in bursts.
NextDebounce ==
    \/ \E a \in DebounceArgs : DebouncedCall(a)
    \/ \E t \in deb.timers : DebounceTimer(t)

\* The enhancers, on the page they find.
NextEnhancers ==
    \/ EnhancersSetup
    \/ \E w \in LaptopWidths : LaptopResize(w)
    \/ \E ev \in TargetEvents \cup ImageEvents \cup WindowEvents :
           LaptopEvent(ev)
    \/ \E m \in LaptopMethods : LaptopMethod(m)
    \/ \E ev \in ButtonEvents : CtaEvent(ev)
    \/ \E m \in ButtonMethods : CtaMethod(m)

\* The load animation and the laptop frame's, with all that may come in
\* between.
NextReveal ==
    \/ AppInit
    \/ AnimateElementCall("frame")
    \/ \E k \in TimerKinds : TimerFire(k)
    \/ \E m \in BOOLEAN : MotionChange(m)
    \/ Destroy

NextAnim ==
    \/ AppInit
    \/ \E e \in Elems, b \in BOOLEAN : Intersect(e, b)
    \/ \E e \in Elems : AnimateElementCall(e)
    \/ \E k \in TimerKinds : TimerFire(k)
    \/ \E m \in BOOLEAN : MotionChange(m)
    \/ Destroy

Spec == Init /\ [][Next]_vars

SpecScroll == Init /\ [][NextScroll]_vars

SpecSections == InitScroll /\ [][NextSections]_vars

SpecViewport == InitViewport /\ [][NextViewport]_vars

SpecPage == InitPage /\ [][NextPage]_vars

SpecEnhancers == InitEnhancers /\ [][NextEnhancers]_vars

SpecDebounce == Init /\ [][NextDebounce]_vars

SpecErrors == InitLoad /\ [][NextErrors]_vars

SpecPreview == InitEnhancers /\ [][NextPreview]_vars

SpecAnim == InitAnim /\ [][NextAnim]_vars

\* The frame animated again and again, every timer set with setTimeout
\* firing in the end: nothing in Animations clears a timer.
SpecReveal ==
    /\ InitReveal
    /\ [][NextReveal]_vars
    /\ \A k \in TimerKinds : WF_vars(TimerFire(k))

SpecLoad == InitLoad /\ [][Next]_vars

----------------------------------------------------------------------------
(* The mobile menu *)

\* C1: after every handler of Navigation the menu state and the DOM agree:
\* isMobileMenuOpen is true exactly when #mainNav and #mobileMenuBtn carry
\* 'active' and #mobileMenuBtn has aria-expanded="true".
C1_MenuAgreesWithDom ==
    menu.open <=> (menu.navActive /\ menu.btnActive /\ menu.aria = "true")

C1_Witness ==
    /\ menu.open /\ menu.navActive /\ menu.btnActive /\ menu.aria = "true"
    /\ last.op = "buttonClick"

\* C2: once openMobileMenu has run, closeMobileMenu leaves the menu's DOM as
\* it was before the open: aria-expanded as before ("false"), no 'active'
\* class on #mainNav or #mobileMenuBtn, isMobileMenuOpen false.
C2_OpenCloseRestores ==
    (preOpen.valid /\ last.calls = <<"close">>) =>
        /\ menu.aria = preOpen.dom.aria
        /\ menu.navActive = preOpen.dom.navActive
        /\ menu.btnActive = preOpen.dom.btnActive
        /\ menu.aria = "false"
        /\ ~menu.navActive /\ ~menu.btnActive
        /\ ~menu.open

C2_Witness ==
    /\ preOpen.valid /\ last.calls = <<"close">> /\ last.pre.open
    /\ last.pre.aria = "true"

\* C3 (the claim as stated): closeMobileMenu on a closed menu changes nothing
\* of the menu and dispatches no mobileMenuClosed.
C3_CloseOnClosedIsNoOp ==
    (last.calls = <<"close">> /\ ~last.pre.open) =>
        (menu = last.pre /\ last.ev = <<>>)

\* C4: a click on the menu button flips the menu exactly once, the button's
\* and the document's listener taken together: from closed to open with
\* aria-expanded="true" and one mobileMenuOpened, from open to closed with
\* one mobileMenuClosed.
C4_ButtonClickFlipsOnce ==
    last.op = "buttonClick" =>
        /\ menu.open = ~last.pre.open
        /\ Len(last.calls) = 1
        /\ menu.open => (menu.aria = "true"
                         /\ last.ev = <<"mobileMenuOpened">>)
        /\ ~menu.open => last.ev = <<"mobileMenuClosed">>

C4_Witness ==
    last.op = "buttonClick" /\ ~last.pre.open /\ menu.open

\* C5: Escape on an open menu closes it with exactly one mobileMenuClosed;
\* Escape on a closed menu changes nothing and dispatches nothing.
C5_Escape ==
    last.op = "escape" =>
        IF last.pre.open
          THEN ~menu.open /\ last.ev = <<"mobileMenuClosed">>
          ELSE menu = last.pre /\ last.ev = <<>> /\ last.calls = <<>>

C5_Witness ==
    last.op = "escape" /\ last.pre.open /\ ~menu.open

\* C6 (the claim as stated): with #mobileMenuBtn or #mainNav missing,
\* Navigation.init does not throw and the page load does not fail:
\* Animations is initialised, the global handlers are installed, appLoaded
\* is dispatched and no error notification is shown.
C6_MissingElementLoads ==
    (last.op = "init" /\ (~hasBtn \/ ~hasNav)) =>
        /\ app.navInit = "ok"
        /\ app.animInit
        /\ app.globalEvents
        /\ app.appLoaded = 1
        /\ app.errorNotes = 0

\* C7 (the claim as stated): a click on a nav link whose target is no
\* element only logs a warning: no scroll, no exception, and the active
\* link, the current section and the menu stay as they were.
C7_MissingTargetOnlyWarns ==
    [][\A id \in LinkIds :
          (NavLinkClick(id) /\ ~SectionExists(id)) =>
              /\ last'.warned /\ ~last'.scroll /\ last'.threw = 0
              /\ UNCHANGED <<currentSection, activeLink, menu, raf>>]_vars

\* C7, amended: the same, for every nav link but "#get-started", which
\* handleNavClick hands to handleGetStarted.
C7_MissingTargetOnlyWarnsButGetStarted ==
    [][\A id \in LinkIds \ {"get-started"} :
          (NavLinkClick(id) /\ ~SectionExists(id)) =>
              /\ last'.warned /\ ~last'.scroll /\ last'.threw = 0
              /\ last'.ev = <<>>
              /\ UNCHANGED <<currentSection, activeLink, menu, raf,
                             closeTimers>>]_vars

C7_Witness ==
    last.op = "navClick" /\ last.warned /\ currentSection = "contact"
        /\ menu.open

\* C8 (the claim as stated): after a click on a nav link whose target
\* exists the scroll is animated without an error, and when the animation
\* is over the scroll position is offsetTop - (headerHeight + 80).
C8_ScrollReachesTarget ==
    lastScroll.req =>
        /\ ~lastScroll.threw
        /\ raf = <<>> => scrollY = lastScroll.target

----------------------------------------------------------------------------
(* Entrance animations *)

\* C9 (the claim as stated): each element is animated exactly once: the
\* first animateElement on an element adds it to animatedElements and
\* starts its animation, every later one changes nothing.  (Until destroy()
\* empties the set.)
C9_AnimatedExactlyOnce ==
    (~hist.destroyed /\ lastAnim.el # "none") =>
        /\ ~lastAnim.had => (~lastAnim.same
                             /\ lastAnim.el \in animatedElements)
        /\ lastAnim.had => lastAnim.same
        /\ hist.again = {}

\* C9, amended: while the reduced-motion preference is off, the first
\* animateElement on an element adds it to animatedElements and starts its
\* animation; a call on an element of the set, and every call while the
\* preference is on, changes nothing; no element is animated twice.
\* (Until destroy() empties the set.)
C9_AnimatedAtMostOnce ==
    (~hist.destroyed /\ lastAnim.el # "none") =>
        /\ (~lastAnim.had /\ ~lastAnim.red) =>
               (~lastAnim.same /\ lastAnim.el \in animatedElements)
        /\ (lastAnim.had \/ lastAnim.red) => lastAnim.same
        /\ hist.again = {}

C9_Witness ==
    /\ ~hist.destroyed /\ lastAnim.had /\ ~lastAnim.red /\ lastAnim.same
    /\ lastAnim.el \in hist.started

\* C10 (the claim as stated, its first half): while the reduced-motion
\* preference is on, found at init or signalled later, no element gets a
\* transition from the entrance animations, timers set earlier included.
C10_ReducedMotionNoTransition ==
    hist.lit \cap (Elems \cup {Kid}) = {}

----------------------------------------------------------------------------
(* The current section *)

\* C19: getCurrentSection returns the latest entry of [home, about,
\* services, testimonials, contact] whose element exists and has
\* offsetTop <= scrollY + 100, and home when none qualifies: checked where
\* handleScroll and Navigation.init store its result.
C19_CurrentSection ==
    [][LET Qualifying(y) ==
               {i \in DOMAIN sections :
                   sections[i] \in DOMAIN page
                       /\ page[sections[i]] <= y + 100}
           Latest(y) ==
               IF Qualifying(y) = {} THEN "home"
               ELSE sections[CHOOSE i \in Qualifying(y) :
                               \A j \in Qualifying(y) : j <= i]
       IN /\ \A y \in ScrollYs :
                (ScrollEvent(y) /\ ~inThrottle) =>
                    currentSection' = Latest(y)
          /\ AppInit => currentSection' = Latest(scrollY)]_vars

C19_Witness ==
    /\ last.op = "handleScroll"
    /\ currentSection = "contact"
    /\ "about" \in DOMAIN page /\ page["about"] > page["contact"]
    /\ page["about"] <= scrollY + 100

----------------------------------------------------------------------------
(* ViewportUtils *)

\* C11 (the claim as stated): onViewportChange invokes the callback exactly
\* once before it returns, without waiting for the debounce delay or for an
\* event.
C11_CalledAtRegistration ==
    sub.state # "none" => sub.atReturn = 1

\* C12 (the claim as stated): once the function onViewportChange returned
\* has been called, the callback is never invoked again.
C12_SilentAfterUnsubscribe ==
    sub.afterOff = 0

\* C15: getCurrentBreakpoint() is xl for w >= 1400, lg for 1024 <= w < 1400,
\* md for 768 <= w < 1024, sm for 480 <= w < 768 and xs for w < 480; it is
\* one of the five labels and moves to no smaller tier as w grows.
C15_Breakpoints ==
    [][LET Tier(w) ==
               CASE w >= 1400 -> 5
                 [] 1024 <= w /\ w < 1400 -> 4
                 [] 768 <= w /\ w < 1024 -> 3
                 [] 480 <= w /\ w < 768 -> 2
                 [] w < 480 -> 1
           Labels == <<"xs", "sm", "md", "lg", "xl">>
           Rank(l) == CHOOSE i \in DOMAIN Labels : Labels[i] = l
       IN q'.asked =>
              /\ q'.bp \in {"xs", "sm", "md", "lg", "xl"}
              /\ q'.bp = Labels[Tier(q'.w)]
              /\ (q.asked /\ q.w <= q'.w) => Rank(q.bp) <= Rank(q'.bp)]_vars

C15_Witness ==
    q.asked /\ q.w = 1399 /\ q.bp = "lg"

\* C16: isMobile() iff w <= 768, isTablet() iff 768 < w <= 1024,
\* isDesktop() iff w > 1024, so exactly one of them holds; at 768 the
\* viewport is mobile and md, at 800 it is a tablet and md.
C16_DeviceClasses ==
    q.asked =>
        /\ q.mobile <=> q.w <= 768
        /\ q.tablet <=> (768 < q.w /\ q.w <= 1024)
        /\ q.desktop <=> q.w > 1024
        /\ Cardinality({c \in {"mobile", "tablet", "desktop"} : q[c]}) = 1
        /\ q.w = 768 => (q.mobile /\ q.bp = "md")
        /\ q.w = 800 => (q.tablet /\ q.bp = "md")

C16_Witness ==
    q.asked /\ q.w = 768 /\ q.mobile /\ ~q.tablet /\ q.bp = "md"

\* C13 (the claim as stated): lockScroll() then unlockScroll() brings the
\* window back to the offset it had before the lock, whatever that offset,
\* clears the body's inline position, top and width and removes
\* data-scroll-y.
C13_LockUnlockRestores ==
    (lock.op = "unlock" /\ lock.had) =>
        /\ lock.y = lock.pre
        /\ lock.position = "" /\ lock.top = <<>> /\ lock.width = ""
        /\ lock.data = <<>>

\* C14 (the claim as stated): the progress onScroll passes to its callback
\* is a number between 0 and 1, also when the document is as high as the
\* viewport.
C14_ProgressInUnitInterval ==
    prog.called =>
        /\ ~prog.nan
        /\ prog.den > 0
        /\ 0 <= prog.num /\ prog.num <= prog.den

----------------------------------------------------------------------------
(* The enhancers *)

C18_EnhancersNeverThrow ==
    /\ ~lap.threw /\ ~cta.threw
    /\ (lap.done /\ ~els.container /\ ~els.image) =>
           (~lap.isInitialized /\ ~lap.listeners /\ ~lap.interval)
    /\ (cta.done /\ ~els.button) => (~cta.isInitialized /\ ~cta.listeners)

\* C20 (the claim as stated): after a resize, once the debounce has no
\* timer pending, the image's max-width is the tier value of the current
\* width, and the frame's and the showcase's are updated with it.
C20_ResizedAfterDebounce ==
    (lap.isInitialized /\ lap.timers = 0) =>
        /\ els.image => lap.imgMax = maxWidth(width)
        /\ els.frame => lap.frameMax = maxWidth(width) + 50
        /\ els.showcase => lap.showcaseMax = maxWidth(width) + 50

----------------------------------------------------------------------------
(* The delayed close, the notifications and the timers *)

\* C21: a click on a nav link whose target exists, on a mobile viewport
\* with the menu open, schedules one close, and when its 300 ms timer
\* fires the menu is closed and mobileMenuClosed is dispatched; a click on
\* a viewport that is not mobile, or with the menu closed, schedules no
\* close.
C21_DelayedClose ==
    [][/\ \A id \in LinkIds :
             NavLinkClick(id) =>
                 closeTimers' =
                     IF id # "get-started" /\ SectionExists(id)
                            /\ isMobile(width) /\ menu.open
                       THEN closeTimers + 1
                       ELSE closeTimers
       /\ CloseTimerFire =>
              (~menu'.open /\ last'.ev = <<"mobileMenuClosed">>)]_vars

C21_Witness ==
    last.op = "closeTimer" /\ last.pre.open /\ ~menu.open
        /\ last.ev = <<"mobileMenuClosed">>

\* C22 (the claim as stated): on a viewport narrower than 768px the
\* mousemove handler of LaptopEnhancer and the one of ButtonEnhancer apply
\* no 3D tilt: neither assigns the target's inline transform.
C22_NoTiltBelow768 ==
    [][/\ (LaptopEvent("mousemove") /\ width < 768) =>
              lap'.move = "skipped"
       /\ (CtaEvent("mousemove") /\ width < 768) =>
              cta'.move = "skipped"]_vars

----------------------------------------------------------------------------
(* Helpers.debounce *)

\* C23: for a function wrapped by Helpers.debounce(func, wait), every
\* call cancels the trailing invocation that is pending: at most one timer
\* is pending, func is not invoked while the burst lasts, and when the
\* timer has fired func has been invoked exactly once, with the arguments
\* of the burst's last call.
C23_DebounceTrailingOnce ==
    /\ Cardinality(deb.timers) <= 1
    /\ deb.timers # {} => deb.invoked = <<>>
    /\ (deb.timers = {} /\ deb.calls > 0) => deb.invoked = <<deb.lastArg>>

C23_Witness ==
    deb.calls = 3 /\ deb.timers = {} /\ deb.invoked = <<2>>

----------------------------------------------------------------------------
(* DOMediaApp's error handling *)

\* C24 (the claim as stated): every uncaught error raised once the
\* application has started initialising, also after a module's init has
\* failed, is captured by DOMediaApp, which shows one error notification
\* for it: an animation frame of smoothScrollTo that throws, and a
\* listener or timer of Navigation that throws, each add a notification.
C24_ErrorsCaptured ==
    [][/\ (\E i \in DOMAIN raf : ScrollFrame(i) /\ lastScroll'.threw) =>
              app'.errorNotes = app.errorNotes + 1
       /\ (last' # last /\ last'.op # "init" /\ last'.threw > 0) =>
              app'.errorNotes = app.errorNotes + last'.threw]_vars

----------------------------------------------------------------------------
(* The menu's notifications and timers *)

\* C25 (the claim as stated): mobileMenuOpened and mobileMenuClosed
\* alternate, mobileMenuOpened first: a handler dispatches
\* mobileMenuClosed only when it takes the menu from open to closed, and
\* mobileMenuOpened only when it takes it from closed to open.
C25_NotificationsAlternate ==
    LET notes == SelectSeq(last.ev,
                           LAMBDA n : n \in {"mobileMenuOpened",
                                             "mobileMenuClosed"})
    IN /\ Len(notes) <= 1
       /\ notes = <<"mobileMenuClosed">> => (last.pre.open /\ ~menu.open)
       /\ notes = <<"mobileMenuOpened">> => (~last.pre.open /\ menu.open)

\* C26 (the claim as stated): the timer of a delayed close closes only the
\* opening of the menu that was there when the link was clicked, never a
\* menu opened while the timer was pending; and the timer of the delayed
\* focus never moves the focus into a menu that is closed.
C26_TimersKeepToTheirOpening ==
    [][/\ CloseTimerFire => ~(menu.open /\ last.calls = <<"open">>)
       /\ FocusTimerFire => menu.open]_vars


\* C27 (the claim as stated): when the scroll events have stopped and the
\* throttle's 100 ms are over, currentSection and the nav link marked
\* active are those of getCurrentSection() at the scroll position the page
\* is left at: the throttle does not lose the last event of a burst.
C27_LastScrollNotLost ==
    (bound /\ ~inThrottle) =>
        /\ currentSection = getCurrentSection(scrollY)
        /\ activeLink = LinkFor(getCurrentSection(scrollY))

----------------------------------------------------------------------------
(* Animations: nothing stays hidden *)

----------------------------------------------------------------------------
(* DOMediaApp.handleError *)

\* C29 (the claim as stated): DOMediaApp.handleError does not throw,
\* whatever the error value, null and undefined included: the notification
\* is shown and the report is logged.
C29_HandleErrorNeverThrows ==
    errs.event # "none" =>
        (~errs.threw /\ errs.shown /\ errs.reported)

----------------------------------------------------------------------------
(* LaptopEnhancer's fullscreen preview *)

\* C30 (the claim as stated): once a fullscreen preview has been dismissed,
\* by a click on the overlay, a click on its close button or the Escape
\* key, and its overlay is removed from the document, no keydown listener
\* of a preview is registered on the document any more.
C30_PreviewLeavesNoListener ==
    (preview.by # "none" /\ preview.overlay = "none") => preview.escape = 0
====
